---- MODULE Spec2Model ----
(***************************************************************************)
(* Model of draco's spec generation: Model (weighted sampler, generate_spec, *)
(* mutate_prop, improve), Improvements and Generator (generate_interaction  *)
(* and the recursive __mutate_spec).                                        *)
(*                                                                          *)
(* Python values are modelled as follows.                                   *)
(*  - a dict with a fixed set of possible keys is a record whose missing    *)
(*    keys hold Absent; reading a missing key raises KeyError;              *)
(*  - spec['encoding'] is a sequence of [channel, enc] items in insertion   *)
(*    order (Python dicts iterate in insertion order);                      *)
(*  - lists are sequences, indexed from 1 where Python indexes from 0;      *)
(*  - probabilities are integers counted in 1/Unit;                         *)
(*  - an exception ends the running call and is recorded in call.err.       *)
(***************************************************************************)
EXTENDS Integers, Sequences, FiniteSets, TLC

\* ------------------------------------------------------------------ bounds
\* largest n_dimensions a caller passes (one more than the channel count)
MaxDim == 4
\* longest property list passed to generate_interaction
MaxProps == 2
\* probabilities are counted in 1/Unit
Unit == 10

\* --------------------------------------------------------- configuration
Absent == "absent"
None == "None"
NoErr == "none"

\* distributions.json, as handed to Model.__init__
Distributions ==
  [mark    |-> [probability |-> 5,
                values |-> << [name |-> "bar",   probability |-> 4],
                              [name |-> "rect",  probability |-> 3],
                              [name |-> "point", probability |-> 3] >>],
   channel |-> [probability |-> Unit,
                values |-> << [name |-> "x",     probability |-> 5],
                              [name |-> "y",     probability |-> 3],
                              [name |-> "color", probability |-> 2] >>],
   type    |-> [probability |-> 7,
                values |-> << [name |-> "quantitative", probability |-> 6],
                              [name |-> "nominal",      probability |-> 4] >>]]

\* definitions.json
top_level_props == {"mark"}
encoding_props == {"type"}

SPECIAL_ENUMS == {"bin", "scale"}

PropNames == DOMAIN Distributions

\* the property lists a caller may pass to generate_interaction
PropLists == UNION {[1..k -> PropNames] : k \in 0..MaxProps}

\* ------------------------------------------------------------- the values
EmptyEnc == [type |-> Absent, aggregate |-> Absent, field |-> Absent]
EmptySpec == [mark |-> Absent, scale |-> Absent, encoding |-> <<>>]
NoSpec == [none |-> TRUE]
NoQuery == [none |-> TRUE]
\* the None that get_enc_by_channel returns
NoEnc == [none |-> TRUE]
\* the object { 'zero': True }
ZeroScale == "{zero: True}"

\* list(spec['encoding'].keys())
Keys(encoding) == [i \in 1..Len(encoding) |-> encoding[i].channel]

KeySet(encoding) == {encoding[i].channel : i \in 1..Len(encoding)}

\* the keys of the spec dict itself
SpecKeys(spec) == {"encoding"} \cup {k \in {"mark", "scale"} : spec[k] # Absent}

\* spec['encoding'][channel] = enc
PutEnc(encoding, channel, enc) ==
  IF channel \in KeySet(encoding)
  THEN [i \in 1..Len(encoding) |->
          IF encoding[i].channel = channel
          THEN [channel |-> channel, enc |-> enc] ELSE encoding[i]]
  ELSE Append(encoding, [channel |-> channel, enc |-> enc])

\* list.pop(index)
Pop(list, index) ==
  [i \in 1..(Len(list) - 1) |-> IF i < index THEN list[i] ELSE list[i + 1]]

\* ------------------------------------------------------- Model.__init__
InitEnums == [p \in PropNames |->
  [i \in 1..Len(Distributions[p].values) |-> Distributions[p].values[i].name]]

InitProbs == [p \in PropNames |->
  [i \in 1..Len(Distributions[p].values) |-> Distributions[p].values[i].probability]]

\* self.enum_probs[prop][enum]
enum_probs(prop, enum) ==
  LET i == CHOOSE j \in 1..Len(InitEnums[prop]) : InitEnums[prop][j] = enum
  IN  InitProbs[prop][i]

\* --------------------------------------------------------- Model.sample
RECURSIVE CumSum(_, _)
CumSum(probs, i) == IF i = 0 THEN 0 ELSE CumSum(probs, i - 1) + probs[i]

\* np.searchsorted(cumulative, choice): the first position whose running sum
\* is >= choice, Len + 1 when there is none
SearchSorted(probs, choice) ==
  LET hits == {i \in 1..Len(probs) : CumSum(probs, i) >= choice}
  IN  IF hits = {} THEN Len(probs) + 1
      ELSE CHOOSE i \in hits : \A j \in hits : i <= j

SampleIndex(probs, choice) ==
  LET index == SearchSorted(probs, choice)
  IN  IF index = Len(probs) + 1 THEN index - 1 ELSE index

\* sample with a guard that answers None for an empty list instead of raising
SampleNoneOnEmpty(enums, probs) ==
  IF Len(probs) = 0
  THEN {[err |-> NoErr, result |-> None, index |-> 0]}
  ELSE {[err |-> NoErr,
         result |-> enums[SampleIndex(probs, choice)],
         index |-> SampleIndex(probs, choice)]
          : choice \in 0..CumSum(probs, Len(probs))}

\* the outcomes of sample(enums, probs), one per value random.uniform can
\* return; cumulative[-1] of an empty list raises IndexError
Sample(enums, probs) ==
  IF Len(probs) = 0
  THEN {[err |-> "IndexError", result |-> None, index |-> 0]}
  ELSE {[err |-> NoErr,
         result |-> enums[SampleIndex(probs, choice)],
         index |-> SampleIndex(probs, choice)]
          : choice \in 0..CumSum(probs, Len(probs))}

\* ---------------------------------------------- Model.build_value_from_enum
build_value_from_enum(prop, enum) ==
  IF prop \in SPECIAL_ENUMS THEN [special |-> prop, name |-> enum] ELSE enum

\* ------------------------------------------------------- Model.__include
\* random.random() lies in [0, 1)
Include(prop) ==
  {b \in BOOLEAN : (b => Distributions[prop].probability > 0)
                /\ (~b => Distributions[prop].probability < Unit)}

\* ------------------------------------------------------------ the state
VARIABLES
  tbl,     \* the list objects: decl = self.enums/self.probs, work = the deepcopy
  curr,    \* the object self.curr_enums/self.curr_probs refer to
  pc,      \* "idle", "gen" (in generate_spec's loop), "ms" (in __mutate_spec)
  call,    \* the running (pc # "idle") or last finished call, with its outcome
  gen,     \* generate_spec's locals: spec and the number of encodings built
  spec,    \* the spec the caller holds, as returned by generate_spec
  props,   \* the list object generate_interaction hands to __mutate_spec
  stack,   \* the __mutate_spec activations, outermost first
  heap,    \* the spec objects the activations refer to
  specs,   \* the output list of generate_interaction
  leaves   \* the number of leaves __mutate_spec has reached in this call

vars == <<tbl, curr, pc, call, gen, spec, props, stack, heap, specs, leaves>>

Refs == 0..(MaxProps + 1)

NoCall == [op |-> "none", n |-> 0, props |-> <<>>, prop |-> None, enum |-> None,
           pre |-> NoSpec, err |-> NoErr]

NoGen == [spec |-> NoSpec, i |-> 0]

EmptyHeap == [r \in Refs |-> NoSpec]

EmptyTable == [enums |-> [p \in PropNames |-> <<>>], probs |-> [p \in PropNames |-> <<>>]]

Init ==
  /\ tbl = [decl |-> [enums |-> InitEnums, probs |-> InitProbs], work |-> EmptyTable]
  /\ curr = "unset"
  /\ pc = "idle"
  /\ call = NoCall
  /\ gen = NoGen
  /\ spec = NoSpec
  /\ props = <<>>
  /\ stack = <<>>
  /\ heap = EmptyHeap
  /\ specs = <<>>
  /\ leaves = 0

\* -------------------------------------------------------- Model.get_enums
get_enums(t, prop) == t.decl.enums[prop]

\* __ready without the deepcopy: self.curr_enums = self.enums
ready_alias(t) == [ref |-> "decl", tbl |-> t]

\* ---------------------------------------------------------- Model.__ready
\* self.curr_enums = deepcopy(self.enums); self.curr_probs = deepcopy(self.probs)
ready(t) == [ref |-> "work", tbl |-> [t EXCEPT !.work = t.decl]]

\* __sample_enum without the pop of the channel drawn
sample_enum_keep(t, ref, prop) ==
  { [err |-> s.err, result |-> s.result, tbl |-> t]
    : s \in Sample(t[ref].enums[prop], t[ref].probs[prop]) }

\* ----------------------------------------------------- Model.__sample_enum
\* outcomes [err, result, tbl]; the channel drawn leaves the working lists
sample_enum(t, ref, prop) ==
  { [err |-> s.err,
     result |-> s.result,
     tbl |-> IF prop = "channel" /\ s.err = NoErr
             THEN [t EXCEPT ![ref].enums[prop] = Pop(@, s.index),
                            ![ref].probs[prop] = Pop(@, s.index)]
             ELSE t]
    : s \in Sample(t[ref].enums[prop], t[ref].probs[prop]) }

\* ----------------------------------------------------- Model.__sample_prop
sample_prop(t, ref, prop) ==
  { [s EXCEPT !.result = IF s.err = NoErr
                         THEN build_value_from_enum(prop, s.result) ELSE None]
    : s \in sample_enum(t, ref, prop) }

\* for prop in ps: if self.__include(prop): rec[prop] = self.__sample_prop(prop)
\* (the loop of generate_spec over top_level_props and of __generate_enc over
\* encoding_props); outcomes [err, rec, tbl]
RECURSIVE FillProps(_, _, _, _)
FillProps(ps, rec, t, ref) ==
  IF ps = {} THEN {[err |-> NoErr, rec |-> rec, tbl |-> t]}
  ELSE LET p == CHOOSE q \in ps : TRUE
       IN  UNION { IF ~inc
                   THEN FillProps(ps \ {p}, rec, t, ref)
                   ELSE UNION { IF s.err # NoErr
                                THEN {[err |-> s.err, rec |-> rec, tbl |-> s.tbl]}
                                ELSE FillProps(ps \ {p}, [rec EXCEPT ![p] = s.result],
                                               s.tbl, ref)
                                : s \in sample_prop(t, ref, p) }
                   : inc \in Include(p) }

\* ---------------------------------------------------- Model.__generate_enc
generate_enc(t, ref) == FillProps(encoding_props, EmptyEnc, t, ref)

\* ------------------------------------------------------ Model.generate_spec
\* the call up to its loop over the dimensions: __ready, the empty spec and
\* the top-level properties
GenerateSpecBegin(op, n, ps) ==
  /\ pc = "idle"
  /\ call = NoCall
  /\ LET r == ready(tbl)
     IN  \E o \in FillProps(top_level_props, EmptySpec, r.tbl, r.ref) :
           /\ curr' = r.ref
           /\ tbl' = o.tbl
           /\ call' = [NoCall EXCEPT !.op = op, !.n = n, !.props = ps, !.err = o.err]
           /\ IF o.err = NoErr
              THEN pc' = "gen" /\ gen' = [spec |-> o.rec, i |-> 0]
              ELSE pc' = "idle" /\ gen' = NoGen
  /\ spec' = NoSpec
  /\ props' = <<>>
  /\ stack' = <<>>
  /\ heap' = EmptyHeap
  /\ specs' = <<>>
  /\ leaves' = 0

GenerateSpecCall == \E n \in 0..MaxDim : GenerateSpecBegin("generate_spec", n, <<>>)

\* one pass of the loop: enc = __generate_enc(); channel = __sample_prop('channel');
\* spec['encoding'][channel] = enc
GenerateSpecDim ==
  /\ pc = "gen"
  /\ gen.i < call.n
  /\ \E e \in generate_enc(tbl, curr) :
       IF e.err # NoErr
       THEN /\ tbl' = e.tbl
            /\ pc' = "idle"
            /\ call' = [call EXCEPT !.err = e.err]
            /\ gen' = gen
       ELSE \E c \in sample_prop(e.tbl, curr, "channel") :
              /\ tbl' = c.tbl
              /\ IF c.err # NoErr
                 THEN /\ pc' = "idle"
                      /\ call' = [call EXCEPT !.err = c.err]
                      /\ gen' = gen
                 ELSE /\ pc' = "gen"
                      /\ call' = call
                      /\ gen' = [spec |-> [gen.spec EXCEPT
                                             !.encoding = PutEnc(@, c.result, e.rec)],
                                 i |-> gen.i + 1]
  /\ UNCHANGED <<curr, spec, props, stack, heap, specs, leaves>>

\* return spec
GenerateSpecReturn ==
  /\ pc = "gen"
  /\ gen.i = call.n
  /\ call.op = "generate_spec"
  /\ pc' = "idle"
  /\ spec' = gen.spec
  /\ gen' = NoGen
  /\ UNCHANGED <<tbl, curr, call, props, stack, heap, specs, leaves>>

\* ------------------------------------------------------- Model.mutate_prop
\* the weights mutate_prop gives the used channels when it renames one
ReplaceProbs(used) == [i \in 1..Len(used) |-> Unit - enum_probs("channel", used[i])]

\* the weights mutate_prop gives the used channels when it modifies one
ModifyProbs(used) == [i \in 1..Len(used) |-> enum_probs("channel", used[i])]

\* enc = spec[to_replace]; del spec[to_replace]; spec['encoding'][enum] = enc
\* (the subscript is applied to the spec itself, whose keys are 'encoding' and
\* the top-level properties)
ReplaceChannel(s, to_replace, enum) ==
  IF to_replace \notin SpecKeys(s) \/ to_replace = "encoding"
  THEN [err |-> "KeyError", spec |-> s]
  ELSE [err |-> NoErr,
        spec |-> [s EXCEPT ![to_replace] = Absent,
                           !.encoding = PutEnc(@, enum, s[to_replace])]]

\* enc = spec[to_modify]; enc[prop] = build_value_from_enum(prop, enum)
\* (a top-level value found under that key is a string or the scale object)
ModifyChannel(s, to_modify, prop, enum) ==
  IF to_modify \notin SpecKeys(s)
  THEN [err |-> "KeyError", spec |-> s]
  ELSE [err |-> "TypeError", spec |-> s]

\* the outcomes [err, spec] of mutate_prop(spec, prop, enum)
mutate_prop(s, prop, enum) ==
  IF prop \in top_level_props
  THEN {[err |-> NoErr, spec |-> [s EXCEPT ![prop] = build_value_from_enum(prop, enum)]]}
  ELSE IF prop = "channel" /\ enum \notin KeySet(s.encoding)
  THEN LET used_channels == Keys(s.encoding)
       IN  { IF d.err # NoErr THEN [err |-> d.err, spec |-> s]
             ELSE ReplaceChannel(s, d.result, enum)
             : d \in Sample(used_channels, ReplaceProbs(used_channels)) }
  ELSE IF prop \in encoding_props
  THEN LET used_channels == Keys(s.encoding)
       IN  { IF d.err # NoErr THEN [err |-> d.err, spec |-> s]
             ELSE ModifyChannel(s, d.result, prop, enum)
             : d \in Sample(used_channels, ModifyProbs(used_channels)) }
  ELSE {[err |-> "ValueError", spec |-> s]}

\* the caller mutates the spec it got from generate_spec
MutatePropCall ==
  /\ pc = "idle"
  /\ spec # NoSpec
  /\ \E prop \in PropNames : \E k \in 1..Len(get_enums(tbl, prop)) :
       LET enum == get_enums(tbl, prop)[k]
       IN  \E o \in mutate_prop(spec, prop, enum) :
             /\ spec' = o.spec
             /\ call' = [NoCall EXCEPT !.op = "mutate_prop", !.prop = prop,
                                       !.enum = enum, !.pre = spec, !.err = o.err]
  /\ UNCHANGED <<tbl, curr, pc, gen, props, stack, heap, specs, leaves>>

\* ---------------------------------------------------- Model.get_enc_by_channel
get_enc_by_channel(s, channel) ==
  IF channel \in KeySet(s.encoding)
  THEN LET i == CHOOSE j \in 1..Len(s.encoding) : s.encoding[j].channel = channel
       IN  s.encoding[i].enc
  ELSE NoEnc

\* q_enc['aggregate'] = 'mean' on the encoding object held under channel
SetAggregate(s, channel) ==
  [s EXCEPT !.encoding = PutEnc(@, channel,
       [get_enc_by_channel(s, channel) EXCEPT !.aggregate = "mean"])]

\* ----------------------------------------------- Improvements.improve_aggregate
\* outcomes [err, spec]; skip is the outcome of random.random() < 0.5
improve_aggregate(s) ==
  IF "mark" \notin SpecKeys(s) THEN {[err |-> "KeyError", spec |-> s]}
  ELSE IF s.mark \notin {"bar", "line", "area"} THEN {[err |-> NoErr, spec |-> s]}
  ELSE { IF skip THEN [err |-> NoErr, spec |-> s]
         ELSE LET x_enc == get_enc_by_channel(s, "x")
                  y_enc == get_enc_by_channel(s, "y")
              IN  IF x_enc = NoEnc \/ y_enc = NoEnc THEN [err |-> NoErr, spec |-> s]
                  ELSE IF x_enc.type = Absent \/ y_enc.type = Absent
                  THEN [err |-> "KeyError", spec |-> s]
                  ELSE IF (x_enc.type # "quantitative") # (y_enc.type # "quantitative")
                  THEN [err |-> NoErr,
                        spec |-> SetAggregate(s, IF x_enc.type = "quantitative"
                                                 THEN "x" ELSE "y")]
                  ELSE [err |-> NoErr, spec |-> s]
         : skip \in BOOLEAN }

\* ---------------------------------------------------- Improvements.improve_bar
improve_bar(s) ==
  IF "mark" \notin SpecKeys(s) THEN {[err |-> "KeyError", spec |-> s]}
  ELSE IF s.mark = "rect"
  THEN {[err |-> NoErr, spec |-> [s EXCEPT !.scale = ZeroScale]]}
  ELSE {[err |-> NoErr, spec |-> s]}

\* ---------------------------------------------------------- Model.improve
\* dir(Improvements) lists the functions by name: improve_aggregate, improve_bar
improve(s) ==
  UNION { IF a.err # NoErr THEN {a} ELSE improve_bar(a.spec)
          : a \in improve_aggregate(s) }

\* the caller improves the spec it got from generate_spec
ImproveCall ==
  /\ pc = "idle"
  /\ spec # NoSpec
  /\ \E o \in improve(spec) :
       /\ spec' = o.spec
       /\ call' = [NoCall EXCEPT !.op = "improve", !.pre = spec, !.err = o.err]
  /\ UNCHANGED <<tbl, curr, pc, gen, props, stack, heap, specs, leaves>>

\* ------------------------------------------- Generator.__populate_field_names
\* enc['type'][:1] for the declared types
TypeCode(type) == IF type = "quantitative" THEN "q" ELSE "n"

InitCounts == [n |-> 1, o |-> 1, q |-> 1, t |-> 1]

\* the loop from the k-th encoding on; the encodings before a failing one keep
\* the field they were given
RECURSIVE PopulateFrom(_, _, _)
PopulateFrom(s, k, counts) ==
  IF k > Len(s.encoding) THEN [err |-> NoErr, spec |-> s]
  ELSE LET enc == s.encoding[k].enc
       IN  IF enc.type = Absent THEN [err |-> "KeyError", spec |-> s]
           ELSE LET field_type == TypeCode(enc.type)
                    field_name == field_type \o ToString(counts[field_type])
                IN  PopulateFrom(
                      [s EXCEPT !.encoding[k].enc.field = field_name],
                      k + 1,
                      [counts EXCEPT ![field_type] = @ + 1])

populate_field_names(s) == PopulateFrom(s, 1, InitCounts)

\* ------------------------------------------------------ Query.from_vegalite
\* the query holds its own copy of the mark and of each encoding's channel,
\* type, aggregate and field, as they are when the spec is converted
from_vegalite(s) ==
  [mark |-> s.mark,
   encodings |-> [k \in 1..Len(s.encoding) |->
      [channel |-> s.encoding[k].channel,
       type |-> s.encoding[k].enc.type,
       aggregate |-> s.encoding[k].enc.aggregate,
       field |-> s.encoding[k].enc.field]]]

\* ------------------------------------------------- Generator.__mutate_spec
\* an activation: ref is its base_spec, orig the value base_spec had on entry,
\* prop and idx the property popped and the position of its loop over the
\* enums, query the local the leaf converts into
Frame(ref, s) == [ref |-> ref, pc |-> "enter", prop |-> None, idx |-> 0,
                  orig |-> s, query |-> NoQuery]

Top == stack[Len(stack)]

SetTop(f) == [stack EXCEPT ![Len(stack)] = f]

\* spec = base_spec: no copy, the branch works on its parent's object
deepcopy_alias(h, ref, new) == [ref |-> ref, heap |-> h]

\* spec = deepcopy(base_spec): a new object, equal to the one under ref
deepcopy(h, ref, new) == [ref |-> new, heap |-> [h EXCEPT ![new] = h[ref]]]

\* an exception leaves generate_interaction: nothing is returned
Raise(err) ==
  /\ pc' = "idle"
  /\ call' = [call EXCEPT !.err = err]
  /\ stack' = <<>>
  /\ heap' = EmptyHeap
  /\ props' = <<>>
  /\ specs' = <<>>

\* the innermost activation returns; the outermost one returns to
\* generate_interaction, which returns specs
Return(h) ==
  LET rest == SubSeq(stack, 1, Len(stack) - 1)
  IN  /\ stack' = rest
      /\ heap' = [r \in Refs |->
                   IF \E k \in 1..Len(rest) : rest[k].ref = r THEN h[r] ELSE NoSpec]
      /\ pc' = IF rest = <<>> THEN "idle" ELSE "ms"
      /\ props' = IF rest = <<>> THEN <<>> ELSE props

\* ------------------------------------------- Generator.generate_interaction
GenerateInteractionCall ==
  \E n \in 0..MaxDim : \E ps \in PropLists :
    GenerateSpecBegin("generate_interaction", n, ps)

\* generate_spec has returned base_spec: specs = [];
\* self.__mutate_spec(base_spec, props.copy(), specs)
GenerateInteractionExpand ==
  /\ pc = "gen"
  /\ gen.i = call.n
  /\ call.op = "generate_interaction"
  /\ pc' = "ms"
  /\ gen' = NoGen
  /\ props' = call.props
  /\ heap' = [EmptyHeap EXCEPT ![0] = gen.spec]
  /\ stack' = <<Frame(0, gen.spec)>>
  /\ specs' = <<>>
  /\ UNCHANGED <<tbl, curr, call, spec, leaves>>

\* if (not props): self.__populate_field_names(base_spec)
MutateSpecLeaf ==
  /\ pc = "ms"
  /\ Top.pc = "enter"
  /\ props = <<>>
  /\ leaves' = leaves + 1
  /\ LET o == populate_field_names(heap[Top.ref])
     IN  IF o.err # NoErr
         THEN Raise(o.err)
         ELSE /\ heap' = [heap EXCEPT ![Top.ref] = o.spec]
              /\ stack' = SetTop([Top EXCEPT !.pc = "convert"])
              /\ UNCHANGED <<pc, call, props, specs>>
  /\ UNCHANGED <<tbl, curr, gen, spec>>

\* query = Query.from_vegalite(base_spec)
MutateSpecConvert ==
  /\ pc = "ms"
  /\ Top.pc = "convert"
  /\ stack' = SetTop([Top EXCEPT !.pc = "improve",
                                 !.query = from_vegalite(heap[Top.ref])])
  /\ UNCHANGED <<tbl, curr, pc, call, gen, spec, props, heap, specs, leaves>>

\* self.model.improve(base_spec)
MutateSpecImprove ==
  /\ pc = "ms"
  /\ Top.pc = "improve"
  /\ \E o \in improve(heap[Top.ref]) :
       IF o.err # NoErr
       THEN Raise(o.err)
       ELSE /\ heap' = [heap EXCEPT ![Top.ref] = o.spec]
            /\ stack' = SetTop([Top EXCEPT !.pc = "valid"])
            /\ UNCHANGED <<pc, call, props, specs>>
  /\ UNCHANGED <<tbl, curr, gen, spec, leaves>>

\* if (is_valid(Task(self.data, query))): specs.append(base_spec); return
MutateSpecValid ==
  /\ pc = "ms"
  /\ Top.pc = "valid"
  /\ \E is_valid \in BOOLEAN :
       specs' = IF is_valid THEN Append(specs, heap[Top.ref]) ELSE specs
  /\ Return(heap)
  /\ UNCHANGED <<tbl, curr, call, gen, spec, leaves>>

\* else: prop_to_mutate = props.pop(0)
MutateSpecPop ==
  /\ pc = "ms"
  /\ Top.pc = "enter"
  /\ props # <<>>
  /\ props' = Tail(props)
  /\ stack' = SetTop([Top EXCEPT !.pc = "loop", !.prop = Head(props), !.idx = 1])
  /\ UNCHANGED <<tbl, curr, pc, call, gen, spec, heap, specs, leaves>>

\* for enum in get_enums(prop_to_mutate): spec = deepcopy(base_spec);
\* mutate_prop(spec, prop_to_mutate, enum); self.__mutate_spec(spec, props, specs)
MutateSpecBranch ==
  /\ pc = "ms"
  /\ Top.pc = "loop"
  /\ Top.idx <= Len(get_enums(tbl, Top.prop))
  /\ LET enum == get_enums(tbl, Top.prop)[Top.idx]
         c == deepcopy(heap, Top.ref, Len(stack))
     IN  \E o \in mutate_prop(c.heap[c.ref], Top.prop, enum) :
           IF o.err # NoErr
           THEN Raise(o.err)
           ELSE /\ heap' = [c.heap EXCEPT ![c.ref] = o.spec]
                /\ stack' = Append(SetTop([Top EXCEPT !.idx = @ + 1]),
                                   Frame(c.ref, o.spec))
                /\ UNCHANGED <<pc, call, props, specs>>
  /\ UNCHANGED <<tbl, curr, gen, spec, leaves>>

\* the loop over the enums is over: return
MutateSpecReturn ==
  /\ pc = "ms"
  /\ Top.pc = "loop"
  /\ Top.idx > Len(get_enums(tbl, Top.prop))
  /\ Return(heap)
  /\ UNCHANGED <<tbl, curr, call, gen, spec, specs, leaves>>

\* ------------------------------------------------------------- the caller
\* the caller drops what the finished call gave it, before its next
\* generate_spec or generate_interaction
Discard ==
  /\ pc = "idle"
  /\ call # NoCall
  /\ call' = NoCall
  /\ spec' = NoSpec
  /\ specs' = <<>>
  /\ leaves' = 0
  /\ UNCHANGED <<tbl, curr, pc, gen, props, stack, heap>>

Next ==
  \/ GenerateSpecCall
  \/ GenerateSpecDim
  \/ GenerateSpecReturn
  \/ MutatePropCall
  \/ ImproveCall
  \/ GenerateInteractionCall
  \/ GenerateInteractionExpand
  \/ MutateSpecLeaf
  \/ MutateSpecConvert
  \/ MutateSpecImprove
  \/ MutateSpecValid
  \/ MutateSpecPop
  \/ MutateSpecBranch
  \/ MutateSpecReturn
  \/ Discard

Spec == Init /\ [][Next]_vars

\* ================================================================ claims
NChannels == Len(InitEnums["channel"])

RECURSIVE EnumProduct(_, _)
EnumProduct(ps, k) ==
  IF k = 0 THEN 1 ELSE EnumProduct(ps, k - 1) * Len(get_enums(tbl, ps[k]))

Finished(op) == pc = "idle" /\ call.op = op

\* the encoding object held under channel
EncOf(s, channel) ==
  LET i == CHOOSE j \in 1..Len(s.encoding) : s.encoding[j].channel = channel
  IN  s.encoding[i].enc

\* C1: when generate_interaction returns, the number of leaves the expansion
\* reached equals the product, over the properties of the list it was given,
\* of the number of enums get_enums returns for each.
C1_LeavesAreProduct ==
  (Finished("generate_interaction") /\ call.err = NoErr)
    => leaves = EnumProduct(call.props, Len(call.props))

\* C2: mutate_prop(spec, 'channel', v) with v already a key of the encoding
\* map returns without error and leaves the spec as it was.
C2_UsedChannelIsNoOp ==
  (Finished("mutate_prop") /\ call.prop = "channel"
     /\ call.enum \in KeySet(call.pre.encoding))
    => (call.err = NoErr /\ spec = call.pre)

\* C3: mutate_prop(spec, 'channel', v) on a spec with at least one encoding
\* and v not a key of the encoding map completes without error, removes one
\* used channel, holds that channel's encoding under v, keeps the number of
\* encodings and leaves every other channel and top-level property alone.
C3_UnusedChannelMovesOne ==
  (Finished("mutate_prop") /\ call.prop = "channel"
     /\ Len(call.pre.encoding) >= 1
     /\ call.enum \notin KeySet(call.pre.encoding))
    => /\ call.err = NoErr
       /\ spec.mark = call.pre.mark
       /\ spec.scale = call.pre.scale
       /\ Len(spec.encoding) = Len(call.pre.encoding)
       /\ \E old \in KeySet(call.pre.encoding) :
            /\ KeySet(spec.encoding) = (KeySet(call.pre.encoding) \ {old}) \cup {call.enum}
            /\ EncOf(spec, call.enum) = EncOf(call.pre, old)
            /\ \A c \in KeySet(call.pre.encoding) \ {old} :
                 EncOf(spec, c) = EncOf(call.pre, c)

\* C4: mutate_prop(spec, prop, e) for an encoding-level prop on a spec with at
\* least one used channel completes without error and sets prop, to the value
\* built from e, on the encoding of exactly one used channel; the channel
\* keys, the other encodings and the top-level properties stay as they were.
C4_EncodingPropSetOnOne ==
  (Finished("mutate_prop") /\ call.prop \in encoding_props
     /\ Len(call.pre.encoding) >= 1)
    => /\ call.err = NoErr
       /\ \E k \in 1..Len(call.pre.encoding) :
            spec = [call.pre EXCEPT !.encoding[k].enc[call.prop] =
                                      build_value_from_enum(call.prop, call.enum)]

\* C5: generate_spec(n) with n at most the number of declared channels returns
\* a spec with exactly n encodings, each under a channel of its own; while the
\* loop runs, the i encodings built so far are under i distinct channels.
C5_ExactlyNDistinctChannels ==
  /\ (pc = "gen" /\ call.n <= NChannels)
       => /\ Len(gen.spec.encoding) = gen.i
          /\ Cardinality(KeySet(gen.spec.encoding)) = gen.i
  /\ (Finished("generate_spec") /\ call.n <= NChannels)
       => /\ call.err = NoErr
          /\ spec # NoSpec
          /\ Len(spec.encoding) = call.n
          /\ Cardinality(KeySet(spec.encoding)) = call.n

C5_Witness ==
  /\ Finished("generate_spec")
  /\ call.n = NChannels
  /\ spec # NoSpec
  /\ KeySet(spec.encoding) = {"x", "y", "color"}

\* C6: generate_spec with n_dimensions above the number of declared channels
\* ends in an error raised by the draw that finds the channel pool empty (all
\* the channels drawn, as many encodings built); no spec is returned, and no
\* encoding is ever stored under a repeated or a None channel.
C6_TooManyDimensionsRaises ==
  /\ (pc = "gen" /\ call.n > NChannels)
       => /\ gen.i <= NChannels
          /\ Cardinality(KeySet(gen.spec.encoding)) = gen.i
          /\ None \notin KeySet(gen.spec.encoding)
  /\ (pc = "idle" /\ call.op \in {"generate_spec", "generate_interaction"}
        /\ call.n > NChannels)
       => /\ call.err = "IndexError"
          /\ spec = NoSpec
          /\ specs = <<>>
          /\ gen.i = NChannels
          /\ tbl[curr].enums["channel"] = <<>>

C6_Witness ==
  /\ Finished("generate_spec")
  /\ call.n = NChannels + 1
  /\ call.err = "IndexError"
  /\ Len(gen.spec.encoding) = NChannels

\* C7: the distribution table never changes, so get_enums(p) is the declared
\* list of p at all times, and every generate_spec starts its loop from a
\* working channel pool equal to the declared channel list.
C7_TableUnchanged ==
  /\ \A p \in PropNames : get_enums(tbl, p) = InitEnums[p]
  /\ tbl.decl.probs = InitProbs
  /\ (pc = "gen" /\ gen.i = 0)
       => /\ tbl[curr].enums = InitEnums
          /\ tbl[curr].probs = InitProbs

\* a later call is about to start after an earlier one drained the pool
C7_Witness ==
  /\ pc = "idle"
  /\ call = NoCall
  /\ curr # "unset"
  /\ tbl[curr].enums["channel"] = <<>>
  /\ get_enums(tbl, "channel") = InitEnums["channel"]

\* C8: in the expansion, the spec of every activation that is not a leaf
\* keeps the value it had on entry while its branches run, and every branch
\* starts from that value with only its own mutate_prop applied.
C8_BranchesIsolated ==
  pc = "ms" =>
    \A k \in 1..Len(stack) :
      /\ stack[k].pc \in {"enter", "loop"} => heap[stack[k].ref] = stack[k].orig
      /\ k > 1 =>
           LET parent == stack[k - 1]
               enum == get_enums(tbl, parent.prop)[parent.idx - 1]
           IN  \E o \in mutate_prop(parent.orig, parent.prop, enum) :
                 o.err = NoErr /\ o.spec = stack[k].orig

\* a second branch of a node has started, its sibling having changed the mark
C8_Witness ==
  /\ pc = "ms"
  /\ Len(stack) = 2
  /\ stack[1].pc = "loop"
  /\ stack[1].idx = 3
  /\ stack[2].pc = "enter"
  /\ stack[2].orig # stack[1].orig
  /\ leaves >= 1

\* C9: at a leaf the query handed to the validity oracle is the conversion of
\* the spec as the Improvements pass left it.
C9_QueryIsOfImprovedSpec ==
  (pc = "ms" /\ Top.pc = "valid") => Top.query = from_vegalite(heap[Top.ref])

\* C10: the Improvements pass completes without error on what generate_spec
\* returns, and leaves a spec whose mark is none of bar, line, area, rect
\* (a left-out mark included) as it was.
C10_ImproveCompletes ==
  Finished("improve")
    => /\ call.err = NoErr
       /\ call.pre.mark \notin {"bar", "line", "area", "rect"} => spec = call.pre

====
